---------------------------- MODULE Spec2Model ----------------------------
(***************************************************************************)
(* Prompt revision and AI-optimisation workflow of the App component       *)
(* (src/unnamed/part_000, lines 104-682) with the AiService adapter        *)
(* (lines 4-80) and the record types of src/types.ts.                      *)
(*                                                                         *)
(* Strings that the code takes apart (the version tag) are sequences of    *)
(* one-character strings; the other texts are compared only, and are       *)
(* strings.                                                                *)
(* null and the id 0 are both falsy for the code's `if (selectedPromptId)` *)
(* and are both written 0.                                                 *)
(***************************************************************************)
EXTENDS Integers, Sequences, FiniteSets, Bags, TLC

(***************************************************************************)
(* Bounds of the model.                                                    *)
(***************************************************************************)
\* Each specification explores runs within a scope that its initial state
\* fixes: the storage writes (createPrompt / updatePrompt calls) a run
\* issues, and the asynchronous calls (analysis, storage write, deletion,
\* listing) in flight at one time.
\* The whole program, and its save and view-mode parts:
MaxSaves == 1
MaxInFlight == 1
\* Repeated saves of one record, over many version strings:
MaxResaves == 2
MaxSaving == 1
\* Concurrent analysis calls:
MaxAnalyzing == 2
\* Connectivity checks in flight:
MaxChecks == 2
\* Timer handles told apart where notices and their timers are followed.
MaxTimers == 2

(***************************************************************************)
(* JavaScript string and number primitives used by nextVersion.            *)
(***************************************************************************)
DigitChars == <<"0", "1", "2", "3", "4", "5", "6", "7", "8", "9">>

IsDigit(c) == \E i \in 1..10 : DigitChars[i] = c

DigitVal(c) == (CHOOSE i \in 1..10 : DigitChars[i] = c) - 1

\* String.prototype.replace(c, ''): only the first occurrence is removed.
RECURSIVE ReplaceFirst(_, _)
ReplaceFirst(s, c) ==
    IF s = <<>> THEN <<>>
    ELSE IF Head(s) = c THEN Tail(s)
    ELSE <<Head(s)>> \o ReplaceFirst(Tail(s), c)

\* String.prototype.split(c)[0]: the text before the first separator.
RECURSIVE SplitHead(_, _)
SplitHead(s, c) ==
    IF s = <<>> THEN <<>>
    ELSE IF Head(s) = c THEN <<>>
    ELSE <<Head(s)>> \o SplitHead(Tail(s), c)

\* The longest prefix of decimal digits.
RECURSIVE DigitPrefix(_)
DigitPrefix(s) ==
    IF s = <<>> \/ ~IsDigit(Head(s)) THEN <<>>
    ELSE <<Head(s)>> \o DigitPrefix(Tail(s))

RECURSIVE SkipSpaces(_)
SkipSpaces(s) ==
    IF s # <<>> /\ Head(s) = " " THEN SkipSpaces(Tail(s)) ELSE s

RECURSIVE DigitsValue(_)
DigitsValue(ds) ==
    IF ds = <<>> THEN 0
    ELSE 10 * DigitsValue(SubSeq(ds, 1, Len(ds) - 1)) + DigitVal(ds[Len(ds)])

(***************************************************************************)
(* A JavaScript number that holds an integer: NaN, or sign and magnitude   *)
(* hi * 10^8 + lo (magnitudes below 10^16, which 16 digits cover).  The    *)
(* code's numbers are IEEE-754 doubles: integers are exact up to 2^53 =    *)
(* 9007199254740992; between 2^53 and 2^54 only even integers exist and a  *)
(* tie rounds to the even mantissa (the multiple of 4).                    *)
(*                                                                         *)
(* A magnitude of 18 digits or more is kept as its significant digits and  *)
(* its number of digits.  Such a double is above 2^54, where adding 1      *)
(* changes nothing, and it prints its shortest decimal, which is the       *)
(* parsed one when that has at most 15 significant digits.  Digit strings  *)
(* of 17 digits, or longer with more significant digits, are outside what  *)
(* ParseInt models.                                                        *)
(***************************************************************************)
Base == 100000000

NaN == [nan |-> TRUE, neg |-> FALSE, big |-> FALSE, hi |-> 0, lo |-> 0]

Num(neg, hi, lo) == [nan |-> FALSE, neg |-> neg, big |-> FALSE, hi |-> hi, lo |-> lo]

\* sig * 10^(len - Len(sig)), a magnitude of len digits.
Big(neg, sig, len) == [nan |-> FALSE, neg |-> neg, big |-> TRUE, sig |-> sig, len |-> len]

RECURSIVE TrimLeadingZeros(_)
TrimLeadingZeros(ds) ==
    IF Len(ds) > 1 /\ Head(ds) = "0" THEN TrimLeadingZeros(Tail(ds)) ELSE ds

RECURSIVE TrimTrailingZeros(_)
TrimTrailingZeros(ds) ==
    IF Len(ds) > 1 /\ ds[Len(ds)] = "0"
    THEN TrimTrailingZeros(SubSeq(ds, 1, Len(ds) - 1)) ELSE ds

Zeros(k) == [i \in 1..k |-> "0"]

TwoPow53 == Num(FALSE, 90071992, 54740992)

AboveTwoPow53(n) ==
    \/ n.hi > TwoPow53.hi
    \/ n.hi = TwoPow53.hi /\ n.lo > TwoPow53.lo

MagInc(n) ==
    IF n.lo + 1 = Base THEN Num(n.neg, n.hi + 1, 0) ELSE Num(n.neg, n.hi, n.lo + 1)

MagDec(n) ==
    IF n.lo = 0 THEN Num(n.neg, n.hi - 1, Base - 1) ELSE Num(n.neg, n.hi, n.lo - 1)

\* Round an exact integer to the nearest double, ties to even.
ToDouble(n) ==
    IF AboveTwoPow53(n) /\ n.lo % 2 = 1
    THEN IF (n.lo - 1) % 4 = 0 THEN MagDec(n) ELSE MagInc(n)
    ELSE n

\* num + 1 in double arithmetic: the exact sum, rounded.
PlusOne(n) ==
    IF n.big THEN n
    ELSE IF ~n.neg THEN ToDouble(MagInc(n))
    ELSE IF n.hi = 0 /\ n.lo = 0 THEN Num(FALSE, 0, 1)
    ELSE IF n.hi = 0 /\ n.lo = 1 THEN Num(FALSE, 0, 0)
    ELSE ToDouble(MagDec(n))

\* parseInt(s) with no radix: leading blanks, an optional sign, then the
\* decimal digits up to the first other character; NaN when there are none.
ParseInt(s) ==
    LET t    == SkipSpaces(s)
        neg  == t # <<>> /\ Head(t) = "-"
        u    == IF t # <<>> /\ Head(t) \in {"-", "+"} THEN Tail(t) ELSE t
        ds   == TrimLeadingZeros(DigitPrefix(u))
        n    == Len(ds)
    IN  IF n = 0 THEN NaN
        ELSE IF n > 16 THEN Big(neg, TrimTrailingZeros(ds), n)
        ELSE IF n <= 8 THEN ToDouble(Num(neg, 0, DigitsValue(ds)))
        ELSE ToDouble(Num(neg, DigitsValue(SubSeq(ds, 1, n - 8)),
                               DigitsValue(SubSeq(ds, n - 7, n))))

RECURSIVE NatToString(_)
NatToString(k) ==
    IF k < 10 THEN <<DigitChars[k + 1]>>
    ELSE NatToString(k \div 10) \o <<DigitChars[(k % 10) + 1]>>

RECURSIVE ZeroPad(_, _)
ZeroPad(s, width) == IF Len(s) >= width THEN s ELSE ZeroPad(<<"0">> \o s, width)

\* Number::toString for a magnitude of 18 digits or more: plain decimal
\* notation below 10^21, exponent notation from 10^21 on.
BigToString(n) ==
    IF n.len <= 21 THEN n.sig \o Zeros(n.len - Len(n.sig))
    ELSE <<Head(n.sig)>>
            \o (IF Len(n.sig) > 1 THEN <<".">> \o Tail(n.sig) ELSE <<>>)
            \o <<"e", "+">> \o NatToString(n.len - 1)

\* Number to string inside a template literal.
NumToString(n) ==
    LET mag == IF n.big THEN BigToString(n)
               ELSE IF n.hi = 0 THEN NatToString(n.lo)
               ELSE NatToString(n.hi) \o ZeroPad(NatToString(n.lo), 8)
    IN  IF n.nan THEN <<"N", "a", "N">>
        ELSE IF n.neg /\ (n.big \/ n.hi # 0 \/ n.lo # 0) THEN <<"-">> \o mag
        ELSE mag

Zero == Num(FALSE, 0, 0)

\* nextVersion printing the number with one decimal place.
nextVersionDecimal(ver) ==
    LET num == ParseInt(SplitHead(ReplaceFirst(ver, "v"), "."))
    IN  <<"v">> \o NumToString(PlusOne(IF num.nan THEN Zero ELSE num))
               \o <<".", "0", ".", "0">>

\* nextVersion without its "+ 1".
nextVersionNoIncrement(ver) ==
    LET num == ParseInt(SplitHead(ReplaceFirst(ver, "v"), "."))
    IN  <<"v">> \o NumToString(IF num.nan THEN Zero ELSE num) \o <<".", "0">>

\* const nextVersion = (ver) => `v${(isNaN(num) ? 0 : num) + 1}.0`
nextVersion(ver) ==
    LET num == ParseInt(SplitHead(ReplaceFirst(ver, "v"), "."))
    IN  <<"v">> \o NumToString(PlusOne(IF num.nan THEN Zero ELSE num)) \o <<".", "0">>


(***************************************************************************)
(* Values of the program's types (src/types.ts).                           *)
(***************************************************************************)
LIST == "LIST"
EDIT == "EDIT"
PREVIEW == "PREVIEW"
ViewModes == {LIST, EDIT, PREVIEW}

GEMINI == "GEMINI"
QWEN == "QWEN"
AIModels == {GEMINI, QWEN}

\* A field that holds JavaScript's undefined, and a version the storage row
\* does not carry (null): neither is a text.
Undefined == "undefined"
Absent == <<"null">>

V(major) == <<"v">> \o major \o <<".", "0">>

\* What the user can type into a field.  A template inserted by
\* insertTemplate (lines 204-209) changes the content in the EDIT view as
\* typing does, and is one of these texts.
Titles == {"", "A"}
Summaries == {"", "S"}
TypedTexts == {"", "x"}

\* Texts the language model returns as optimizedPrompt: one equal to a text
\* the user can have typed, one that the user never types.
AiTexts == {"x", "z"}

\* PromptRecord.  id = 0 stands for a record without id.
Record(id, title, summary, content, excontext, version) ==
    [id |-> id, title |-> title, summary |-> summary, content |-> content,
     excontext |-> excontext, version |-> version]

\* The Draft of useState (lines 109-115) and of handleCreateNew (174-180).
EmptyDraft == Record(0, "", "", "", "", V(<<"1">>))

\* AIAnalysisResult | null.
NoResult == [present |-> FALSE, optimizedPrompt |-> "", changeLog |-> ""]

Result(text, log) == [present |-> TRUE, optimizedPrompt |-> text, changeLog |-> log]

\* JSON.parse("{}") cast to AIAnalysisResult: an object with neither field.
EmptyObject == Result(Undefined, Undefined)

AiResults == {Result(t, "c") : t \in AiTexts}

\* The toast state: null, or {msg, type}.
NoToast == [msg |-> "", type |-> ""]

Toast(msg, type) == [msg |-> msg, type |-> type]

(***************************************************************************)
(* The versions the stored rows can carry when the program starts.         *)
(***************************************************************************)
TwoPow53Digits ==
    <<"9", "0", "0", "7", "1", "9", "9", "2", "5", "4", "7", "4", "0", "9", "9", "2">>

\* 10^21, the least magnitude printed in exponent notation.
TenPow21Digits == <<"1">> \o Zeros(21)

Versions ==
    { V(<<"3">>), V(<<"9">>), V(<<"9", "9">>), V(TwoPow53Digits), V(TenPow21Digits),
      V(<<"b">>), <<"v">>, <<>>, Absent }

VARIABLES
    viewMode,           \* useState<ViewMode>, line 106
    prompts,            \* the listing, line 107
    selectedPromptId,   \* line 108 (0 = null)
    currentPrompt,      \* the Draft, line 109
    aiModel,            \* line 118
    isAnalyzing,        \* line 120
    aiResult,           \* line 121
    isLoadingPrompts,   \* line 125
    toast,              \* line 129
    timers,             \* the pending timers of the toast effect (lines 143-148)
    db,                 \* the rows the storage collaborator holds
    nextId,             \* the id the storage assigns to the next created row
    analyses,           \* analyzePrompt calls in flight (a bag)
    saves,              \* createPrompt / updatePrompt calls in flight (a bag)
    deletes,            \* deletePrompt calls in flight (a bag)
    fetches,            \* getAllPrompts calls in flight
    nSaves,             \* storage writes issued so far
    saved,              \* ids a successful update has written
    created,            \* a create call for the Draft on hand has succeeded
    scope,              \* the bounds of the run: [saves, calls, replies, timers]
    aiConnected,        \* line 119
    dbConnected,        \* line 124
    checks,             \* checkConnections calls in flight (a bag)
    apiKey              \* process.env.API_KEY is set (line 9)

ui == <<viewMode, prompts, selectedPromptId, currentPrompt, aiModel,
        isAnalyzing, aiResult, isLoadingPrompts, toast, timers>>

vars == <<viewMode, prompts, selectedPromptId, currentPrompt, aiModel,
          isAnalyzing, aiResult, isLoadingPrompts, toast, timers, db, nextId,
          analyses, saves, deletes, fetches, nSaves, saved, created, scope,
          aiConnected, dbConnected, checks, apiKey>>

\* The notice and the timers of its effect.
notice == <<toast, timers>>

\* The connectivity indicators, their checks and the credential.
conn == <<aiConnected, dbConnected, checks, apiKey>>

One(x) == SetToBag({x})

InFlight ==
    BagCardinality(analyses) + BagCardinality(saves) + BagCardinality(deletes) + fetches

\* A run tells one timer handle from another only where its scope is widened
\* to more than one handle.
Scope(nsaves, ncalls, replies) ==
    [saves |-> nsaves, calls |-> ncalls, replies |-> replies, timers |-> 1]

\* A checkConnections call in flight: awaiting testConnection ("db") or the
\* probe of checkConnection ("ai"), for the backend selected when it began.
Check(stage, model) == [stage |-> stage, model |-> model]

\* Component mount (lines 106-141): the state defaults, with the mount
\* effect's checkConnections() and fetchPrompts() started, over the rows
\* the storage holds.
Mount(rows) ==
    /\ viewMode = LIST
    /\ prompts = {}
    /\ selectedPromptId = 0
    /\ currentPrompt = EmptyDraft
    /\ aiModel = GEMINI
    /\ isAnalyzing = FALSE
    /\ aiResult = NoResult
    /\ isLoadingPrompts = TRUE
    /\ toast = NoToast
    /\ timers = {}
    /\ db = rows
    /\ nextId = 1 + CHOOSE m \in {r.id : r \in rows} : \A r \in rows : r.id <= m
    /\ analyses = EmptyBag
    /\ saves = EmptyBag
    /\ deletes = EmptyBag
    /\ fetches = 1
    /\ nSaves = 0
    /\ saved = {}
    /\ created = FALSE
    /\ aiConnected = FALSE
    /\ dbConnected = FALSE
    /\ checks = One(Check("db", GEMINI))

Init ==
    /\ Mount({ Record(1, "A", "S", "x", "", V(<<"3">>)) })
    /\ scope = Scope(MaxSaves, MaxInFlight, {"network_error", "malformed", "json"})
    /\ apiKey = TRUE

(***************************************************************************)
(* Rendering.  Line 662 reads aiResult.changeLog.length whenever the view  *)
(* is PREVIEW and aiResult is set; with changeLog undefined the render     *)
(* throws and React unmounts the component: no handler runs any more and   *)
(* state updates are dropped; the unmount runs the cleanup of the toast    *)
(* effect, which clears its timer.                                         *)
(***************************************************************************)
RenderThrows ==
    viewMode = PREVIEW /\ aiResult.present /\ aiResult.changeLog = Undefined

Mounted == ~RenderThrows


(***************************************************************************)
(* AiService.analyzePrompt (lines 22-79).  A backend reply is a transport  *)
(* failure, a non-success HTTP status, or a response text: empty, not      *)
(* JSON, or the JSON text of a value.                                      *)
(***************************************************************************)
Reply(kind, value) == [kind |-> kind, value |-> value]

ReplyKinds == {"network_error", "http_error", "empty", "malformed", "json", "json_empty_object"}

\* The replies of the kinds a run draws from.
BackendReplies(kinds) ==
    {Reply(k, NoResult) : k \in kinds \ {"json", "json_empty_object"}}
        \cup {Reply("json", r) : r \in IF "json" \in kinds THEN AiResults ELSE {}}
        \cup {Reply("json", r) : r \in IF "json_empty_object" \in kinds
                                        THEN {EmptyObject} ELSE {}}

Threw == [threw |-> TRUE, value |-> NoResult]

Returned(value) == [threw |-> FALSE, value |-> value]

\* JSON.parse(text)
JSONParse(reply) ==
    IF reply.kind = "json" THEN Returned(reply.value) ELSE Threw

\* Lines 42-54: the SDK call rejects on a transport or HTTP failure;
\* `response.text || "{}"` turns an empty text into the text of {}.
analyzeGemini(reply) ==
    IF reply.kind \in {"network_error", "http_error"} THEN Threw
    ELSE IF reply.kind = "empty" THEN JSONParse(Reply("json", EmptyObject))
    ELSE JSONParse(reply)

\* analyzeQwen without the status check of line 74.
analyzeQwenAnyStatus(reply) ==
    IF reply.kind = "network_error" THEN Threw
    ELSE IF reply.kind = "http_error" THEN Returned(EmptyObject)
    ELSE JSONParse(reply)

\* Lines 56-78: fetch rejects on a transport failure, `!res.ok` throws, and
\* the message content is parsed as it is.
analyzeQwen(reply) ==
    IF reply.kind = "network_error" THEN Threw
    ELSE IF reply.kind = "http_error" THEN Threw
    ELSE JSONParse(reply)

analyzePrompt(model, reply) ==
    IF model = GEMINI THEN analyzeGemini(reply) ELSE analyzeQwen(reply)

(***************************************************************************)
(* AiService.checkConnection (lines 5-20).  The probe of the Qwen branch   *)
(* ends in a transport failure or in a response with a status.             *)
(***************************************************************************)
Probes == {"network_error", "unauthorized", "server_error", "ok"}

CheckThrew == [threw |-> TRUE, value |-> FALSE]

CheckReturned(value) == [threw |-> FALSE, value |-> value]

\* Line 7: only the Qwen branch calls fetch.
NeedsProbe(model) == model # GEMINI

\* checkConnection with its fetch outside the try block.
checkConnectionUncaught(model, key, probe) ==
    IF model = GEMINI THEN CheckReturned(key)
    ELSE IF probe = "network_error" THEN CheckThrew
    ELSE CheckReturned(probe = "ok")

\* Lines 6-19: !!process.env.API_KEY for Gemini; for Qwen res.ok, and false
\* from the catch when fetch rejects.
checkConnection(model, key, probe) ==
    IF model = GEMINI THEN CheckReturned(key)
    ELSE IF probe = "network_error" THEN CheckReturned(FALSE)
    ELSE CheckReturned(probe = "ok")

(***************************************************************************)
(* The storage collaborator (DbService, ./services/db).                    *)
(***************************************************************************)
RowIds(rows) == {r.id : r \in rows}

\* updatePrompt(id, record): the row with that id takes the record's fields.
StoreUpdate(rows, id, rec) ==
    {r \in rows : r.id # id} \cup {[rec EXCEPT !.id = id]}

\* createPrompt(record): a new row under an id the storage assigns.
StoreCreate(rows, id, rec) == rows \cup {[rec EXCEPT !.id = id]}

StoreDelete(rows, id) == {r \in rows : r.id # id}

(***************************************************************************)
(* showToast (lines 277-279) and fetchPrompts up to its await (160-163).   *)
(***************************************************************************)
\* The handles a run tells apart.
TimerPool == 0..(scope.timers - 1)

\* setTimeout returns a handle that no pending or just cleared timer
\* carries, as far as the run's handles reach.
FreshTimer(pending) ==
    LET free == IF TimerPool \ pending = {} THEN TimerPool ELSE TimerPool \ pending
    IN  CHOOSE h \in free : \A g \in free : h <= g

\* showToast whose effect has no cleanup: the timer of the notice it
\* replaces stays pending.
showToastKeepsTimer(msg, type) ==
    /\ toast' = Toast(msg, type)
    /\ timers' = timers \cup {FreshTimer(timers)}

\* showToast (lines 277-279) and the effect its state update triggers
\* (lines 143-148): setToast stores a new object, so the effect runs again;
\* its cleanup clears the timer of the notice that is replaced and its body
\* starts the timer of the new one.
showToast(msg, type) ==
    /\ toast' = Toast(msg, type)
    /\ timers' = {FreshTimer(timers)}

\* fetchPrompts called twice.
StartFetchTwice ==
    /\ isLoadingPrompts' = TRUE
    /\ fetches' = fetches + 2

StartFetch ==
    /\ isLoadingPrompts' = TRUE
    /\ fetches' = fetches + 1

(***************************************************************************)
(* Sidebar navigation (lines 304-330), rendered in every view.             *)
(***************************************************************************)
NavList ==
    /\ Mounted
    /\ viewMode' = LIST
    /\ UNCHANGED <<prompts, selectedPromptId, currentPrompt, aiModel, isAnalyzing,
                   aiResult, isLoadingPrompts, notice, db, nextId, analyses, saves,
                   deletes, fetches, nSaves, saved, created, scope, conn>>

\* handleCreateNew without its setAiResult(null).
ResetDraftKeepsResult ==
    /\ currentPrompt' = EmptyDraft
    /\ selectedPromptId' = 0
    /\ aiResult' = aiResult
    /\ viewMode' = EDIT
    /\ created' = FALSE

\* handleCreateNew (lines 173-184)
ResetDraft ==
    /\ currentPrompt' = EmptyDraft
    /\ selectedPromptId' = 0
    /\ aiResult' = NoResult
    /\ viewMode' = EDIT
    /\ created' = FALSE

\* Lines 313-316: a fresh Draft when none is selected, else the Draft as it is.
NavEdit ==
    /\ Mounted
    /\ IF viewMode # EDIT /\ selectedPromptId = 0
       THEN ResetDraft
       ELSE /\ viewMode' = EDIT
            /\ UNCHANGED <<selectedPromptId, currentPrompt, aiResult, created>>
    /\ UNCHANGED <<prompts, aiModel, isAnalyzing, isLoadingPrompts, notice, db,
                   nextId, analyses, saves, deletes, fetches, nSaves, saved, scope, conn>>

\* The sidebar's PREVIEW button without its disabled attribute.
NavPreviewAlways ==
    /\ Mounted
    /\ viewMode' = PREVIEW
    /\ UNCHANGED <<prompts, selectedPromptId, currentPrompt, aiModel, isAnalyzing,
                   aiResult, isLoadingPrompts, notice, db, nextId, analyses, saves,
                   deletes, fetches, nSaves, saved, created, scope, conn>>

\* Lines 322-324: disabled while the Draft's content is empty.
NavPreview ==
    /\ Mounted
    /\ currentPrompt.content # ""
    /\ viewMode' = PREVIEW
    /\ UNCHANGED <<prompts, selectedPromptId, currentPrompt, aiModel, isAnalyzing,
                   aiResult, isLoadingPrompts, notice, db, nextId, analyses, saves,
                   deletes, fetches, nSaves, saved, created, scope, conn>>

(***************************************************************************)
(* LIST view (lines 364-432).                                              *)
(***************************************************************************)
\* The header's button (line 368).
handleCreateNew ==
    /\ Mounted
    /\ viewMode = LIST
    /\ ResetDraft
    /\ UNCHANGED <<prompts, aiModel, isAnalyzing, isLoadingPrompts, notice, db,
                   nextId, analyses, saves, deletes, fetches, nSaves, saved, scope, conn>>

\* The rows are rendered only when no fetch is loading (line 388).
Listed == IF isLoadingPrompts THEN {} ELSE prompts

\* handleEdit (lines 186-191)
handleEdit ==
    /\ Mounted
    /\ viewMode = LIST
    /\ \E prompt \in Listed :
          /\ currentPrompt' = prompt
          /\ selectedPromptId' = prompt.id
    /\ aiResult' = NoResult
    /\ viewMode' = EDIT
    /\ created' = FALSE
    /\ UNCHANGED <<prompts, aiModel, isAnalyzing, isLoadingPrompts, notice, db,
                   nextId, analyses, saves, deletes, fetches, nSaves, saved, scope, conn>>

\* handleDelete up to its await (lines 193-196); a declined confirm returns.
handleDelete ==
    /\ Mounted
    /\ viewMode = LIST
    /\ \E prompt \in Listed, confirmed \in BOOLEAN :
          IF confirmed
          THEN /\ InFlight < scope.calls
               /\ deletes' = deletes (+) One(prompt.id)
          ELSE UNCHANGED deletes
    /\ UNCHANGED <<viewMode, prompts, selectedPromptId, currentPrompt, aiModel,
                   isAnalyzing, aiResult, isLoadingPrompts, notice, db, nextId,
                   analyses, saves, fetches, nSaves, saved, created, scope, conn>>

\* handleDelete with an empty catch block.
DeleteResolveSilent(id, ok) ==
       /\ deletes' = deletes (-) One(id)
       /\ db' = IF ok THEN StoreDelete(db, id) ELSE db
       /\ IF ~Mounted THEN UNCHANGED <<notice, isLoadingPrompts, fetches>>
          ELSE IF ok THEN showToast("deleteOk", "success") /\ StartFetch
          ELSE UNCHANGED <<notice, isLoadingPrompts, fetches>>
       /\ UNCHANGED <<viewMode, prompts, selectedPromptId, currentPrompt, aiModel,
                      isAnalyzing, aiResult, nextId, analyses, saves, nSaves, saved, created, scope, conn>>

\* handleDelete after its await (lines 197-201): deletePrompt(id) returned
\* (ok) or threw.
DeleteResolveWith(id, ok) ==
       /\ deletes' = deletes (-) One(id)
       /\ db' = IF ok THEN StoreDelete(db, id) ELSE db
       /\ IF ~Mounted THEN UNCHANGED <<notice, isLoadingPrompts, fetches>>
          ELSE IF ok THEN showToast("deleteOk", "success") /\ StartFetch
          ELSE showToast("deleteFailed", "error") /\ UNCHANGED <<isLoadingPrompts, fetches>>
       /\ UNCHANGED <<viewMode, prompts, selectedPromptId, currentPrompt, aiModel,
                      isAnalyzing, aiResult, nextId, analyses, saves, nSaves, saved, created, scope, conn>>

DeleteResolve ==
    \E id \in BagToSet(deletes), ok \in BOOLEAN : DeleteResolveWith(id, ok)

\* fetchPrompts after its await (lines 163-170).
FetchResolve ==
    /\ fetches > 0
    /\ fetches' = fetches - 1
    /\ \E ok \in BOOLEAN :
          IF ~Mounted THEN UNCHANGED <<prompts, notice, isLoadingPrompts>>
          ELSE /\ isLoadingPrompts' = FALSE
               /\ IF ok THEN prompts' = db /\ UNCHANGED notice
                  ELSE showToast("fetchFailed", "error") /\ UNCHANGED prompts
    /\ UNCHANGED <<viewMode, selectedPromptId, currentPrompt, aiModel, isAnalyzing,
                   aiResult, db, nextId, analyses, saves, deletes, nSaves, saved, created, scope, conn>>


(***************************************************************************)
(* EDIT view (lines 435-518).                                              *)
(***************************************************************************)
\* The header's back arrow (line 439).
BackToList ==
    /\ Mounted
    /\ viewMode = EDIT
    /\ viewMode' = LIST
    /\ UNCHANGED <<prompts, selectedPromptId, currentPrompt, aiModel, isAnalyzing,
                   aiResult, isLoadingPrompts, notice, db, nextId, analyses, saves,
                   deletes, fetches, nSaves, saved, created, scope, conn>>

\* Title input (line 456).
SetTitle ==
    /\ Mounted
    /\ viewMode = EDIT
    /\ \E t \in Titles : currentPrompt' = [currentPrompt EXCEPT !.title = t]
    /\ UNCHANGED <<viewMode, prompts, selectedPromptId, aiModel, isAnalyzing,
                   aiResult, isLoadingPrompts, notice, db, nextId, analyses, saves,
                   deletes, fetches, nSaves, saved, created, scope, conn>>

\* Summary input (line 465).
SetSummary ==
    /\ Mounted
    /\ viewMode = EDIT
    /\ \E t \in Summaries : currentPrompt' = [currentPrompt EXCEPT !.summary = t]
    /\ UNCHANGED <<viewMode, prompts, selectedPromptId, aiModel, isAnalyzing,
                   aiResult, isLoadingPrompts, notice, db, nextId, analyses, saves,
                   deletes, fetches, nSaves, saved, created, scope, conn>>

\* Content textarea (line 492).
SetContent ==
    /\ Mounted
    /\ viewMode = EDIT
    /\ \E t \in TypedTexts : currentPrompt' = [currentPrompt EXCEPT !.content = t]
    /\ UNCHANGED <<viewMode, prompts, selectedPromptId, aiModel, isAnalyzing,
                   aiResult, isLoadingPrompts, notice, db, nextId, analyses, saves,
                   deletes, fetches, nSaves, saved, created, scope, conn>>

(***************************************************************************)
(* Analysis.                                                               *)
(***************************************************************************)
\* The call sending the text PREVIEW displays (line 566) in place of the
\* content it is given.
AnalysisCallOfDisplayed(model, content, title) ==
    [model |-> model,
     content |-> IF aiResult.present THEN aiResult.optimizedPrompt ELSE content,
     title |-> title]

AnalysisCall(model, content, title) ==
    [model |-> model, content |-> content, title |-> title]

\* The check of line 212 without its content half.
MissingTitle(draft) == draft.title = ""

\* Line 212: !currentPrompt.title || !currentPrompt.content
MissingInput(draft) == draft.title = "" \/ draft.content = ""

\* The EDIT view's button is disabled while analyzing (line 500); the
\* PREVIEW view's button (lines 539-545) carries no disabled attribute.
AnalyzeButtonEnabled ==
    \/ viewMode = EDIT /\ ~isAnalyzing
    \/ viewMode = PREVIEW

\* handleAiAnalyze up to its await (lines 211-218).
handleAiAnalyze ==
    /\ Mounted
    /\ AnalyzeButtonEnabled
    /\ IF MissingInput(currentPrompt)
       THEN /\ showToast("validation", "error")
            /\ UNCHANGED <<isAnalyzing, analyses>>
       ELSE /\ InFlight < scope.calls
            /\ isAnalyzing' = TRUE
            /\ analyses' = analyses (+)
                  One(AnalysisCall(aiModel, currentPrompt.content, currentPrompt.title))
            /\ UNCHANGED notice
    /\ UNCHANGED <<viewMode, prompts, selectedPromptId, currentPrompt, aiModel,
                   aiResult, isLoadingPrompts, db, nextId, saves, deletes, fetches,
                   nSaves, saved, created, scope, conn>>

\* handleAiAnalyze dropping the result of a call whose Draft the user left.
AnalyzeResolveUnlessLeft(call, reply) ==
       LET out == analyzePrompt(call.model, reply)
           left == viewMode = LIST \/ currentPrompt.title # call.title
       IN  /\ analyses' = analyses (-) One(call)
           /\ IF ~Mounted THEN UNCHANGED <<aiResult, viewMode, notice, isAnalyzing>>
              ELSE /\ isAnalyzing' = FALSE
                   /\ IF out.threw
                      THEN /\ showToast("analyzeFailed", "error")
                           /\ UNCHANGED <<aiResult, viewMode>>
                      ELSE IF left THEN UNCHANGED <<aiResult, viewMode, notice>>
                      ELSE /\ aiResult' = out.value
                           /\ viewMode' = PREVIEW
                           /\ UNCHANGED toast
                           /\ timers' = IF RenderThrows' THEN {} ELSE timers
           /\ UNCHANGED <<prompts, selectedPromptId, currentPrompt, aiModel,
                          isLoadingPrompts, db, nextId, saves, deletes, fetches,
                          nSaves, saved, created, scope, conn>>

\* handleAiAnalyze after its await (lines 218-226): the call returns or
\* throws, as analyzePrompt makes of the backend's reply.
AnalyzeResolveWith(call, reply) ==
       LET out == analyzePrompt(call.model, reply)
       IN  /\ analyses' = analyses (-) One(call)
           /\ IF ~Mounted THEN UNCHANGED <<aiResult, viewMode, notice, isAnalyzing>>
              ELSE /\ isAnalyzing' = FALSE
                   /\ IF out.threw
                      THEN /\ showToast("analyzeFailed", "error")
                           /\ UNCHANGED <<aiResult, viewMode>>
                      ELSE /\ aiResult' = out.value
                           /\ viewMode' = PREVIEW
                           /\ UNCHANGED toast
                           /\ timers' = IF RenderThrows' THEN {} ELSE timers
           /\ UNCHANGED <<prompts, selectedPromptId, currentPrompt, aiModel,
                          isLoadingPrompts, db, nextId, saves, deletes, fetches,
                          nSaves, saved, created, scope, conn>>

AnalyzeResolve ==
    \E call \in BagToSet(analyses), reply \in BackendReplies(scope.replies) :
       AnalyzeResolveWith(call, reply)

\* Backend select (line 339), rendered in every view.
SetAiModel ==
    /\ Mounted
    /\ \E m \in AIModels : aiModel' = m
    /\ UNCHANGED <<viewMode, prompts, selectedPromptId, currentPrompt, isAnalyzing,
                   aiResult, isLoadingPrompts, notice, db, nextId, analyses, saves,
                   deletes, fetches, nSaves, saved, created, scope, conn>>

\* checkConnections up to its first await (lines 152-153), from the
\* sidebar's refresh button (line 352).
checkConnections ==
    /\ Mounted
    /\ BagCardinality(checks) < MaxChecks
    /\ checks' = checks (+) One(Check("db", aiModel))
    /\ UNCHANGED <<ui, db, nextId, analyses, saves, deletes, fetches, nSaves,
                   saved, created, scope, aiConnected, dbConnected, apiKey>>

\* checkConnections after testConnection returned dbOk (lines 153-157): the
\* Gemini branch of checkConnection returns without a call, so its value is
\* set in the same turn; the Qwen branch leaves its probe in flight.
DbTestResolveWith(c, dbOk) ==
    LET res == checkConnection(c.model, apiKey, "ok")
    IN  /\ c.stage = "db"
        /\ dbConnected' = IF Mounted THEN dbOk ELSE dbConnected
        /\ IF NeedsProbe(c.model)
           THEN /\ checks' = (checks (-) One(c)) (+) One(Check("ai", c.model))
                /\ UNCHANGED aiConnected
           ELSE /\ checks' = checks (-) One(c)
                /\ aiConnected' = IF Mounted /\ ~res.threw THEN res.value
                                  ELSE aiConnected
        /\ UNCHANGED <<ui, db, nextId, analyses, saves, deletes, fetches, nSaves,
                       saved, created, scope, apiKey>>

DbTestResolve ==
    \E c \in BagToSet(checks), dbOk \in BOOLEAN : DbTestResolveWith(c, dbOk)

\* checkConnections after checkConnection's probe ended (lines 156-157); a
\* checkConnection that throws rejects checkConnections before line 157.
AiProbeResolveWith(c, probe) ==
    LET res == checkConnection(c.model, apiKey, probe)
    IN  /\ c.stage = "ai"
        /\ checks' = checks (-) One(c)
        /\ aiConnected' = IF Mounted /\ ~res.threw THEN res.value ELSE aiConnected
        /\ UNCHANGED <<ui, db, nextId, analyses, saves, deletes, fetches, nSaves,
                       saved, created, scope, dbConnected, apiKey>>

AiProbeResolve ==
    \E c \in BagToSet(checks), probe \in Probes : AiProbeResolveWith(c, probe)

(***************************************************************************)
(* PREVIEW view (lines 521-590).                                           *)
(***************************************************************************)
\* The header's back arrow (line 525).
BackToEdit ==
    /\ Mounted
    /\ viewMode = PREVIEW
    /\ viewMode' = EDIT
    /\ UNCHANGED <<prompts, selectedPromptId, currentPrompt, aiModel, isAnalyzing,
                   aiResult, isLoadingPrompts, notice, db, nextId, analyses, saves,
                   deletes, fetches, nSaves, saved, created, scope, conn>>

\* A revert that keeps the optimized text by writing it into the Draft.
RevertMerging ==
    /\ Mounted
    /\ viewMode = PREVIEW
    /\ aiResult.present
    /\ aiResult' = NoResult
    /\ currentPrompt' = [currentPrompt EXCEPT !.content = aiResult.optimizedPrompt]
    /\ UNCHANGED <<viewMode, prompts, selectedPromptId, aiModel,
                   isAnalyzing, isLoadingPrompts, notice, db, nextId, analyses, saves,
                   deletes, fetches, nSaves, saved, created, scope, conn>>

\* Revert (lines 531-538), rendered while an AnalysisResult is set.
Revert ==
    /\ Mounted
    /\ viewMode = PREVIEW
    /\ aiResult.present
    /\ aiResult' = NoResult
    /\ UNCHANGED <<viewMode, prompts, selectedPromptId, currentPrompt, aiModel,
                   isAnalyzing, isLoadingPrompts, notice, db, nextId, analyses, saves,
                   deletes, fetches, nSaves, saved, created, scope, conn>>

\* An onChange that writes the Draft's content whether or not a result is
\* displayed.
EditPreviewWritesDraft ==
    /\ Mounted
    /\ viewMode = PREVIEW
    /\ \E newVal \in TypedTexts :
          /\ currentPrompt' = [currentPrompt EXCEPT !.content = newVal]
          /\ aiResult' = IF aiResult.present
                         THEN [aiResult EXCEPT !.optimizedPrompt = newVal]
                         ELSE aiResult
    /\ UNCHANGED <<viewMode, prompts, selectedPromptId, aiModel, isAnalyzing,
                   isLoadingPrompts, notice, db, nextId, analyses, saves, deletes,
                   fetches, nSaves, saved, created, scope, conn>>

\* The PREVIEW textarea's onChange (lines 567-574).
EditPreview ==
    /\ Mounted
    /\ viewMode = PREVIEW
    /\ \E newVal \in TypedTexts :
          IF aiResult.present
          THEN /\ aiResult' = [aiResult EXCEPT !.optimizedPrompt = newVal]
               /\ UNCHANGED currentPrompt
          ELSE /\ currentPrompt' = [currentPrompt EXCEPT !.content = newVal]
               /\ UNCHANGED aiResult
    /\ UNCHANGED <<viewMode, prompts, selectedPromptId, aiModel, isAnalyzing,
                   isLoadingPrompts, notice, db, nextId, analyses, saves, deletes,
                   fetches, nSaves, saved, created, scope, conn>>

(***************************************************************************)
(* Save (lines 229-270).                                                   *)
(***************************************************************************)
\* payloadBase keeping the Draft's excontext.
payloadBaseKeepsExcontext(draft, result) ==
    [draft EXCEPT !.content = IF result.present THEN result.optimizedPrompt
                              ELSE draft.content]

\* payloadBase with the Draft's content as content.
payloadBaseDraftContent(draft, result) ==
    [draft EXCEPT !.excontext = draft.content]

\* Lines 242-246.
payloadBase(draft, result) ==
    [draft EXCEPT !.excontext = draft.content,
                  !.content = IF result.present THEN result.optimizedPrompt
                              ELSE draft.content]

StorageCall(kind, id, rec) == [kind |-> kind, id |-> id, rec |-> rec]

\* SaveCall with the create path numbering from the Draft's version.
SaveCallFromDraftVersion(draft, result, selected) ==
    IF selected # 0
    THEN StorageCall("update", selected,
                     [payloadBase(draft, result) EXCEPT !.version = nextVersion(draft.version)])
    ELSE StorageCall("create", 0,
                     [payloadBase(draft, result) EXCEPT !.version = nextVersion(draft.version)])

\* Lines 248-261: the call handleSave makes for a Draft, a result and a
\* selected id.
SaveCall(draft, result, selected) ==
    IF selected # 0
    THEN StorageCall("update", selected,
                     [payloadBase(draft, result) EXCEPT !.version = nextVersion(draft.version)])
    ELSE StorageCall("create", 0,
                     [payloadBase(draft, result) EXCEPT !.version = V(<<"1">>)])

\* On the update path nextVersion calls ver.replace: a TypeError when the
\* Draft carries no version string.
SaveThrows(draft, selected) == selected # 0 /\ draft.version = Absent

\* handleSave up to its await (lines 229-261).
handleSave ==
    /\ Mounted
    /\ viewMode = PREVIEW
    /\ IF SaveThrows(currentPrompt, selectedPromptId)
       THEN /\ showToast("saveFailed", "error")
            /\ UNCHANGED <<saves, nSaves>>
       ELSE /\ nSaves < scope.saves
            /\ InFlight < scope.calls
            /\ saves' = saves (+) One(SaveCall(currentPrompt, aiResult, selectedPromptId))
            /\ nSaves' = nSaves + 1
            /\ UNCHANGED notice
    /\ UNCHANGED <<viewMode, prompts, selectedPromptId, currentPrompt, aiModel,
                   isAnalyzing, aiResult, isLoadingPrompts, db, nextId, analyses,
                   deletes, fetches, saved, created, scope, conn>>

\* An update succeeds only on a row the storage holds.
CanSucceed(call, rows) == call.kind = "create" \/ call.id \in RowIds(rows)

\* The storage's part of a write, and handleSave after its await (263-269):
\* the call returned the persisted record (ok) or threw.
SaveResolveWith(call, ok) ==
       /\ ok => CanSucceed(call, db)
       /\ saves' = saves (-) One(call)
       /\ IF ~ok THEN UNCHANGED <<db, nextId, saved, created>>
          ELSE IF call.kind = "update"
          THEN /\ db' = StoreUpdate(db, call.id, call.rec)
               /\ saved' = saved \cup {call.id}
               /\ UNCHANGED <<nextId, created>>
          ELSE /\ db' = StoreCreate(db, nextId, call.rec)
               /\ nextId' = nextId + 1
               /\ created' = (created \/ call = SaveCall(currentPrompt, aiResult, selectedPromptId))
               /\ UNCHANGED saved
       /\ IF ~Mounted THEN UNCHANGED <<notice, viewMode, isLoadingPrompts, fetches>>
          ELSE IF ok
          THEN /\ showToast("saveOk", "success")
               /\ viewMode' = LIST
               /\ StartFetch
          ELSE /\ showToast("saveFailed", "error")
               /\ UNCHANGED <<viewMode, isLoadingPrompts, fetches>>
       /\ UNCHANGED <<prompts, selectedPromptId, currentPrompt, aiModel, isAnalyzing,
                      aiResult, analyses, deletes, nSaves, scope, conn>>

SaveResolve ==
    \E call \in BagToSet(saves), ok \in BOOLEAN : SaveResolveWith(call, ok)

\* A timer of the toast effect fires (line 145): setToast(null).  The
\* effect's cleanup then clears the timer of the notice that was showing,
\* which is the one that fired, and starts none.
ToastExpireOf(h) ==
    /\ Mounted
    /\ h \in timers
    /\ toast' = NoToast
    /\ timers' = timers \ {h}
    /\ UNCHANGED <<viewMode, prompts, selectedPromptId, currentPrompt, aiModel,
                   isAnalyzing, aiResult, isLoadingPrompts, db, nextId, analyses,
                   saves, deletes, fetches, nSaves, saved, created, scope, conn>>

ToastExpire == \E h \in timers : ToastExpireOf(h)

Next ==
    \/ NavList
    \/ NavEdit
    \/ NavPreview
    \/ handleCreateNew
    \/ handleEdit
    \/ handleDelete
    \/ DeleteResolve
    \/ FetchResolve
    \/ BackToList
    \/ SetTitle
    \/ SetSummary
    \/ SetContent
    \/ handleAiAnalyze
    \/ AnalyzeResolve
    \/ SetAiModel
    \/ BackToEdit
    \/ Revert
    \/ EditPreview
    \/ handleSave
    \/ SaveResolve
    \/ ToastExpire
    \/ checkConnections
    \/ DbTestResolve
    \/ AiProbeResolve

\* The whole program, one storage write and one call in flight at a time.
Spec == Init /\ [][Next]_vars

(***************************************************************************)
(* Saving, and saving again, over the version strings a stored row can     *)
(* carry: selection, navigation, the content field and the save.  The row  *)
(* with id 0 is the one record whose id is falsy for line 248.             *)
(***************************************************************************)
InitVersion ==
    /\ \E v \in Versions :
          Mount({ Record(1, "A", "S", "x", "", v),
                  Record(0, "A", "S", "x", "", V(<<"7">>)) })
    /\ scope = Scope(MaxResaves, MaxSaving, {})
    /\ apiKey = TRUE

NextVersion ==
    \/ NavList
    \/ NavEdit
    \/ NavPreview
    \/ handleCreateNew
    \/ handleEdit
    \/ FetchResolve
    \/ BackToList
    \/ SetContent
    \/ BackToEdit
    \/ handleSave
    \/ SaveResolve

SpecVersion == InitVersion /\ [][NextVersion]_vars

(***************************************************************************)
(* Analysis with concurrent calls and both backends: selection,            *)
(* navigation, the title and content fields, the analysis and the notice.  *)
(***************************************************************************)
InitAnalysis ==
    /\ Mount({ Record(1, "A", "S", "x", "", V(<<"3">>)) })
    /\ scope = Scope(0, MaxAnalyzing, {"network_error", "http_error", "malformed", "json"})
    /\ apiKey = TRUE

NextAnalysis ==
    \/ NavList
    \/ NavEdit
    \/ NavPreview
    \/ handleCreateNew
    \/ handleEdit
    \/ FetchResolve
    \/ BackToList
    \/ SetTitle
    \/ SetContent
    \/ handleAiAnalyze
    \/ AnalyzeResolve
    \/ SetAiModel
    \/ BackToEdit
    \/ Revert
    \/ EditPreview
    \/ ToastExpire

SpecAnalysis == InitAnalysis /\ [][NextAnalysis]_vars

(***************************************************************************)
(* Saving and deleting, with and without an analysis result: selection,    *)
(* the content field, the analysis, the PREVIEW view and the storage       *)
(* calls.                                                                  *)
(***************************************************************************)
InitSave ==
    /\ Mount({ Record(1, "A", "S", "x", "", V(<<"3">>)) })
    /\ scope = Scope(MaxSaves, MaxInFlight, {"json"})
    /\ apiKey = TRUE

NextSave ==
    \/ NavPreview
    \/ handleCreateNew
    \/ handleEdit
    \/ handleDelete
    \/ DeleteResolve
    \/ FetchResolve
    \/ SetContent
    \/ handleAiAnalyze
    \/ AnalyzeResolve
    \/ BackToEdit
    \/ Revert
    \/ EditPreview
    \/ handleSave
    \/ SaveResolve

SpecSave == InitSave /\ [][NextSave]_vars

(***************************************************************************)
(* The view mode: every step that sets it, and the steps those need.       *)
(***************************************************************************)
InitView ==
    /\ Mount({ Record(1, "A", "S", "x", "", V(<<"3">>)) })
    /\ scope = Scope(MaxSaves, MaxInFlight, {"json"})
    /\ apiKey = TRUE

NextView ==
    \/ NavList
    \/ NavEdit
    \/ NavPreview
    \/ handleCreateNew
    \/ handleEdit
    \/ FetchResolve
    \/ BackToList
    \/ SetTitle
    \/ SetContent
    \/ handleAiAnalyze
    \/ AnalyzeResolve
    \/ BackToEdit
    \/ handleSave
    \/ SaveResolve

SpecView == InitView /\ [][NextView]_vars

(***************************************************************************)
(* Analysis, revert and save of a stored record: PREVIEW is entered only   *)
(* by an analysis that succeeds.                                           *)
(***************************************************************************)
InitRevert ==
    /\ Mount({ Record(1, "A", "S", "x", "", V(<<"3">>)) })
    /\ scope = Scope(MaxSaves, MaxInFlight, {"json"})
    /\ apiKey = TRUE

NextRevert ==
    \/ handleEdit
    \/ FetchResolve
    \/ BackToList
    \/ SetContent
    \/ handleAiAnalyze
    \/ AnalyzeResolve
    \/ BackToEdit
    \/ Revert
    \/ EditPreview
    \/ handleSave
    \/ SaveResolve

SpecRevert == InitRevert /\ [][NextRevert]_vars

(***************************************************************************)
(* Connectivity: the checks of the mount effect and of the refresh button, *)
(* for both backends, with and without the Gemini credential.              *)
(***************************************************************************)
InitConnection ==
    /\ Mount({ Record(1, "A", "S", "x", "", V(<<"3">>)) })
    /\ scope = Scope(0, 1, {})
    /\ apiKey \in BOOLEAN

NextConnection ==
    \/ FetchResolve
    \/ SetAiModel
    \/ checkConnections
    \/ DbTestResolve
    \/ AiProbeResolve

SpecConnection == InitConnection /\ [][NextConnection]_vars

(***************************************************************************)
(* Deleting a record that is also held as the Draft: selection, the        *)
(* sidebar, the deletion and the save.                                     *)
(***************************************************************************)
InitDelete ==
    /\ Mount({ Record(1, "A", "S", "x", "", V(<<"3">>)) })
    /\ scope = Scope(MaxSaves, MaxInFlight, {})
    /\ apiKey = TRUE

NextDelete ==
    \/ NavList
    \/ NavEdit
    \/ NavPreview
    \/ handleCreateNew
    \/ handleEdit
    \/ handleDelete
    \/ DeleteResolve
    \/ FetchResolve
    \/ BackToList
    \/ SetContent
    \/ BackToEdit
    \/ handleSave
    \/ SaveResolve

SpecDelete == InitDelete /\ [][NextDelete]_vars

(***************************************************************************)
(* Analysis over every kind of backend reply, the empty response text and  *)
(* the JSON text of an object without the result's fields included.        *)
(***************************************************************************)
InitReply ==
    /\ Mount({ Record(1, "A", "S", "x", "", V(<<"3">>)) })
    /\ scope = Scope(0, MaxAnalyzing, ReplyKinds)
    /\ apiKey = TRUE

NextReply ==
    \/ NavList
    \/ NavPreview
    \/ handleCreateNew
    \/ handleEdit
    \/ FetchResolve
    \/ SetTitle
    \/ SetContent
    \/ handleAiAnalyze
    \/ AnalyzeResolve
    \/ SetAiModel
    \/ BackToEdit
    \/ ToastExpire

SpecReply == InitReply /\ [][NextReply]_vars

(***************************************************************************)
(* Notices and their timers: the steps that show a notice for a missing    *)
(* input, a failed listing and a failed analysis, and the timer.  A timer  *)
(* that is started and not cleared fires (setTimeout, line 145).           *)
(***************************************************************************)
InitNotice ==
    /\ Mount({ Record(1, "A", "S", "x", "", V(<<"3">>)) })
    /\ scope = [Scope(0, MaxInFlight, {"network_error", "json"})
                   EXCEPT !.timers = MaxTimers]
    /\ apiKey = TRUE

NextNotice ==
    \/ handleCreateNew
    \/ handleEdit
    \/ FetchResolve
    \/ BackToList
    \/ SetTitle
    \/ handleAiAnalyze
    \/ AnalyzeResolve
    \/ BackToEdit
    \/ ToastExpire

SpecNotice ==
    /\ InitNotice
    /\ [][NextNotice]_vars
    /\ \A h \in 0..(MaxTimers - 1) : WF_vars(ToastExpireOf(h))

(***************************************************************************)
(* Two stored records and an analysis that outlives the selection it was   *)
(* started under.  No step edits a title, so the Draft's title tells which *)
(* record, or the new Draft, is selected.                                  *)
(***************************************************************************)
InitSession ==
    /\ Mount({ Record(1, "A", "S", "x", "", V(<<"3">>)),
               Record(2, "B", "S", "x", "", V(<<"3">>)) })
    /\ scope = Scope(MaxSaves, MaxInFlight, {"json"})
    /\ apiKey = TRUE

NextSession ==
    \/ handleCreateNew
    \/ handleEdit
    \/ FetchResolve
    \/ BackToList
    \/ SetContent
    \/ handleAiAnalyze
    \/ AnalyzeResolve
    \/ BackToEdit
    \/ handleSave
    \/ SaveResolve

SpecSession == InitSession /\ [][NextSession]_vars

(***************************************************************************)
(* Saving a new Draft, and saving again: select-new, the sidebar, the      *)
(* content field and the save, over a storage that holds one record.       *)
(***************************************************************************)
InitCreate ==
    /\ Mount({ Record(1, "A", "S", "x", "", V(<<"3">>)) })
    /\ scope = Scope(MaxResaves, MaxSaving, {})
    /\ apiKey = TRUE

NextCreate ==
    \/ NavList
    \/ NavEdit
    \/ NavPreview
    \/ handleCreateNew
    \/ handleEdit
    \/ FetchResolve
    \/ BackToList
    \/ SetContent
    \/ BackToEdit
    \/ handleSave
    \/ SaveResolve

SpecCreate == InitCreate /\ [][NextCreate]_vars

(***************************************************************************)
(* Properties.  The version arithmetic they expect is done on the decimal  *)
(* digits, independently of the number model nextVersion uses.             *)
(***************************************************************************)

\* The storage calls a step issues.
IssuedSaves == {c \in BagToSet(saves') : CopiesIn(c, saves') > CopiesIn(c, saves)}

\* The successor of a natural number written in decimal digits.
RECURSIVE DigitSucc(_)
DigitSucc(ds) ==
    IF ds = <<>> THEN <<"1">>
    ELSE LET front == SubSeq(ds, 1, Len(ds) - 1)
             last  == ds[Len(ds)]
         IN  IF last = "9" THEN DigitSucc(front) \o <<"0">>
             ELSE front \o <<DigitChars[DigitVal(last) + 2]>>

\* The decimal writing of a natural number: digits, no leading zero.
CanonDigits(ds) ==
    /\ ds # <<>>
    /\ \A i \in 1..Len(ds) : IsDigit(ds[i])
    /\ Len(ds) > 1 => ds[1] # "0"

MajorDigits(ver) == SubSeq(ver, 2, Len(ver) - 2)

\* ver is "v<k>.0" for a natural number k.
IsVk0(ver) ==
    /\ Len(ver) >= 4
    /\ ver[1] = "v"
    /\ ver[Len(ver) - 1] = "."
    /\ ver[Len(ver)] = "0"
    /\ CanonDigits(MajorDigits(ver))

\* ds < 2^53, both in decimal digits.
BelowTwoPow53(ds) ==
    \/ Len(ds) < Len(TwoPow53Digits)
    \/ /\ Len(ds) = Len(TwoPow53Digits)
       /\ \E i \in 1..Len(ds) :
             /\ \A j \in 1..(i - 1) : ds[j] = TwoPow53Digits[j]
             /\ DigitVal(ds[i]) < DigitVal(TwoPow53Digits[i])

RowOf(rows, id) == CHOOSE r \in rows : r.id = id

\* C1, as the specification states it: an update-path save of a Draft whose
\* version is v<k>.0 passes v<k+1>.0 to the storage update, for every k >= 0.
C1_UpdatePassesSuccessorAnyK ==
    [][\A c \in IssuedSaves :
          (c.kind = "update" /\ IsVk0(currentPrompt.version))
             => c.rec.version = V(DigitSucc(MajorDigits(currentPrompt.version)))]_vars

\* C1, within the exact range of the number type: an update-path save of a
\* Draft whose version is v<k>.0 with 0 <= k < 2^53 passes v<k+1>.0 to the
\* storage update.
C1_UpdatePassesSuccessor ==
    [][\A c \in IssuedSaves :
          ( /\ c.kind = "update"
            /\ IsVk0(currentPrompt.version)
            /\ BelowTwoPow53(MajorDigits(currentPrompt.version)) )
             => c.rec.version = V(DigitSucc(MajorDigits(currentPrompt.version)))]_vars

\* An update of a Draft at v99.0 is in flight with v100.0.
C1_Witness ==
    \E c \in BagToSet(saves) :
       /\ c.kind = "update"
       /\ c.id = selectedPromptId
       /\ currentPrompt.version = V(<<"9", "9">>)
       /\ c.rec.version = V(<<"1", "0", "0">>)

\* C2: a save with no selected record id issues a storage create, and the
\* version it passes is v1.0 whatever version the Draft holds.
C2_CreatePassesV1 ==
    [][(selectedPromptId = 0 /\ IssuedSaves # {})
          => \A c \in IssuedSaves : c.kind = "create" /\ c.rec.version = V(<<"1">>)]_vars

\* A create is in flight with v1.0 while the Draft holds v7.0.
C2_Witness ==
    \E c \in BagToSet(saves) :
       /\ c.kind = "create"
       /\ c.rec.version = V(<<"1">>)
       /\ selectedPromptId = 0
       /\ currentPrompt.version = V(<<"7">>)

\* C7, as the specification states it: each successful update of a record
\* that a successful update has written before writes the version one above
\* the version stored by the previous one.
C7_SuccessiveUpdatesAdvance ==
    [][\A c \in BagToSet(saves) :
          ( /\ c.kind = "update"
            /\ c.id \in saved
            /\ c.id \in RowIds(db)
            /\ IsVk0(RowOf(db, c.id).version)
            /\ SaveResolveWith(c, TRUE) )
             => RowOf(db', c.id).version
                   = V(DigitSucc(MajorDigits(RowOf(db, c.id).version)))]_vars

\* C5: from a Draft whose title or content is empty no analysis call is
\* issued, and triggering analysis sets the validation notice and leaves
\* the view mode, the Draft, the AnalysisResult and the analyzing flag as
\* they were.
C5_MissingInputMakesNoCall ==
    [][(currentPrompt.title = "" \/ currentPrompt.content = "")
          => /\ \A c \in BagToSet(analyses') :
                   CopiesIn(c, analyses') <= CopiesIn(c, analyses)
             /\ handleAiAnalyze
                   => /\ toast' = Toast("validation", "error")
                      /\ UNCHANGED <<viewMode, currentPrompt, aiResult, isAnalyzing>>]_vars

\* Analysis of a titled Draft without content was refused in EDIT.
C5_Witness ==
    /\ viewMode = EDIT
    /\ currentPrompt.title = "A"
    /\ currentPrompt.content = ""
    /\ toast = Toast("validation", "error")
    /\ ~isAnalyzing
    /\ analyses = EmptyBag

\* C6, as the specification states it: at most one analysis call is in
\* flight at any time.
C6_OneAnalysisInFlight == BagCardinality(analyses) <= 1

\* The replies with which a call fails: transport failure, non-success HTTP
\* status, response text that is not JSON.
FailingReplies ==
    {Reply(k, NoResult) : k \in {"network_error", "http_error", "malformed"}}

C3_ExcontextIsDraftContent ==
    [][\A c \in IssuedSaves :
          /\ c.rec.excontext = currentPrompt.content
          /\ (aiResult.present /\ c.rec.excontext = aiResult.optimizedPrompt)
                => currentPrompt.content = aiResult.optimizedPrompt]_vars

\* A save of an analysed Draft is in flight: excontext is the Draft's text,
\* not the optimized one.
C3_Witness ==
    \E c \in BagToSet(saves) :
       /\ aiResult.present
       /\ currentPrompt.content = "x"
       /\ aiResult.optimizedPrompt = "z"
       /\ c.rec.excontext = "x"

\* C4: the content a save passes to storage is the AnalysisResult's
\* optimizedPrompt when an AnalysisResult is present, and the Draft's
\* content otherwise.
C4_ContentIsOptimizedOrDraft ==
    [][\A c \in IssuedSaves :
          c.rec.content = IF aiResult.present THEN aiResult.optimizedPrompt
                          ELSE currentPrompt.content]_vars

\* A save of an analysed Draft is in flight with the optimized text as
\* content.
C4_Witness ==
    \E c \in BagToSet(saves) :
       /\ aiResult.present
       /\ aiResult.optimizedPrompt = "z"
       /\ currentPrompt.content = "x"
       /\ c.rec.content = "z"

\* C9: a storage create or update that fails sets the save-failed notice,
\* a storage delete that fails sets the delete-failed notice, and neither
\* the trigger of the operation nor its failure changes the view mode, the
\* Draft, the selected id or the AnalysisResult.
C9_StorageFailureKeepsState ==
    [][/\ \A c \in BagToSet(saves) :
            SaveResolveWith(c, FALSE)
               => /\ toast' = Toast("saveFailed", "error")
                  /\ UNCHANGED <<viewMode, currentPrompt, selectedPromptId, aiResult>>
       /\ \A id \in BagToSet(deletes) :
            DeleteResolveWith(id, FALSE)
               => /\ toast' = Toast("deleteFailed", "error")
                  /\ UNCHANGED <<viewMode, currentPrompt, selectedPromptId, aiResult>>
       /\ (handleSave \/ handleDelete)
            => UNCHANGED <<viewMode, currentPrompt, selectedPromptId, aiResult>>]_vars

\* An update of an analysed Draft failed: the notice is up and the view is
\* still PREVIEW with the result and the selection.
C9_Witness ==
    /\ toast = Toast("saveFailed", "error")
    /\ viewMode = PREVIEW
    /\ aiResult.present
    /\ selectedPromptId = 1
    /\ saves = EmptyBag
    /\ nSaves > 0

\* The steps with which an analysis call, and a save, succeed.
AnalyzeSucceeds ==
    \E call \in BagToSet(analyses), r \in AiResults :
       AnalyzeResolveWith(call, Reply("json", r))

SaveSucceeds == \E c \in BagToSet(saves) : SaveResolveWith(c, TRUE)

\* C10, as the specification states it: every change of view mode is one of
\* the table's: LIST to EDIT by select-new or select-existing, EDIT to
\* PREVIEW by analyze-success, EDIT to LIST by back, PREVIEW to LIST by
\* save-success, PREVIEW to EDIT by back.
C10_OnlyTableTransitions ==
    [][viewMode' # viewMode
          => \/ viewMode = LIST /\ viewMode' = EDIT /\ (handleCreateNew \/ handleEdit)
             \/ viewMode = EDIT /\ viewMode' = PREVIEW /\ AnalyzeSucceeds
             \/ viewMode = EDIT /\ viewMode' = LIST /\ BackToList
             \/ viewMode = PREVIEW /\ viewMode' = LIST /\ SaveSucceeds
             \/ viewMode = PREVIEW /\ viewMode' = EDIT /\ BackToEdit]_vars

\* C10, with the sidebar and the late resolutions: every change of view
\* mode is one of the table's, or is made by a sidebar button (to PREVIEW
\* only with a Draft whose content is not empty), or by an analysis or a
\* save that succeeds while another view is shown.
C10_ViewChanges ==
    [][viewMode' # viewMode
          => \/ /\ viewMode = LIST /\ viewMode' = EDIT
                /\ (handleCreateNew \/ handleEdit \/ NavEdit)
             \/ /\ viewMode = EDIT /\ viewMode' = PREVIEW
                /\ (AnalyzeSucceeds \/ (NavPreview /\ currentPrompt.content # ""))
             \/ /\ viewMode = EDIT /\ viewMode' = LIST
                /\ (BackToList \/ NavList \/ SaveSucceeds)
             \/ /\ viewMode = PREVIEW /\ viewMode' = LIST
                /\ (SaveSucceeds \/ NavList)
             \/ /\ viewMode = PREVIEW /\ viewMode' = EDIT
                /\ (BackToEdit \/ NavEdit)
             \/ /\ viewMode = LIST /\ viewMode' = PREVIEW
                /\ (AnalyzeSucceeds \/ (NavPreview /\ currentPrompt.content # ""))]_vars

\* PREVIEW shows a stored record that was never analysed: the view was
\* entered by the sidebar.
C10_Witness ==
    /\ viewMode = PREVIEW
    /\ selectedPromptId = 1
    /\ currentPrompt.content = "x"
    /\ ~aiResult.present
    /\ ~isAnalyzing
    /\ analyses = EmptyBag
    /\ toast = NoToast

\* C11, as the specification states it: a save that succeeds leaves no
\* AnalysisResult in the state, and neither does a manual edit of the Draft.
C11_ResultEndsAtSaveOrEdit ==
    [][(SaveSucceeds \/ currentPrompt' # currentPrompt) => ~aiResult'.present]_vars

\* ver carries no number as its major component: it is absent, or no digit
\* stands before its first ".".
NonNumericOrAbsent(ver) ==
    \/ ver = Absent
    \/ \A i \in 1..Len(ver) :
          IsDigit(ver[i]) => \E j \in 1..(i - 1) : ver[j] = "."

\* C12, as the specification states it: a save on the update path whose
\* Draft version is non-numeric or absent issues the storage update with
\* version v1.0, and shows no failure notice.
C12_UnparsedVersionSavesV1 ==
    [][(handleSave /\ selectedPromptId # 0 /\ NonNumericOrAbsent(currentPrompt.version))
          => /\ \E c \in IssuedSaves :
                   c.kind = "update" /\ c.rec.version = V(<<"1">>)
             /\ toast' # Toast("saveFailed", "error")]_vars

\* C13: revert clears the AnalysisResult and leaves the Draft as it was; an
\* absent AnalysisResult becomes present only by an analysis that succeeds;
\* and a save made while it is absent passes the Draft's content as content.
\* So a save after a revert, with no analysis resolving in between, passes
\* the Draft's content and nothing of the AI text.
C13_RevertThenSavePassesDraft ==
    [][/\ Revert => (~aiResult'.present /\ currentPrompt' = currentPrompt)
       /\ (~aiResult.present /\ aiResult'.present) => AnalyzeSucceeds
       /\ ~aiResult.present
            => \A c \in IssuedSaves : c.rec.content = currentPrompt.content]_vars

\* The analysis of record 1 was reverted in PREVIEW and the save that
\* followed is in flight with the Draft's text.
C13_Witness ==
    \E c \in BagToSet(saves) :
       /\ viewMode = PREVIEW
       /\ selectedPromptId = 1
       /\ ~aiResult.present
       /\ ~isAnalyzing
       /\ analyses = EmptyBag
       /\ currentPrompt.content = "x"
       /\ c.rec.content = "x"
       /\ c.rec.excontext = "x"

\* C14: a call in flight leaves the flight only by resolving; whatever
\* view and Draft are current when it resolves, its success stores its
\* result and sets the view to PREVIEW, and its success or failure clears
\* the analyzing flag.
C14_AnalysisIsNeverCancelled ==
    [][/\ \A call \in BagToSet(analyses) :
            CopiesIn(call, analyses') < CopiesIn(call, analyses) => AnalyzeResolve
       /\ \A call \in BagToSet(analyses), r \in AiResults :
            AnalyzeResolveWith(call, Reply("json", r))
               => aiResult' = r /\ viewMode' = PREVIEW /\ ~isAnalyzing'
       /\ \A call \in BagToSet(analyses), reply \in FailingReplies :
            AnalyzeResolveWith(call, reply) => ~isAnalyzing']_vars

\* PREVIEW shows a result over a blank new Draft: the call was started on
\* record 1, the user left for LIST and select-new, and the call resolved.
C14_Witness ==
    /\ viewMode = PREVIEW
    /\ aiResult.present
    /\ selectedPromptId = 0
    /\ currentPrompt = EmptyDraft
    /\ ~isAnalyzing
    /\ analyses = EmptyBag

\* The analysis calls a step issues.
IssuedAnalyses ==
    {c \in BagToSet(analyses') : CopiesIn(c, analyses') > CopiesIn(c, analyses)}

\* C15: every analysis call, from EDIT or from PREVIEW's re-analyze, is
\* issued for the selected backend with the Draft's content and title,
\* whatever optimized text the AnalysisResult holds.
C15_AnalysisSendsDraft ==
    [][\A c \in IssuedAnalyses :
          /\ c.content = currentPrompt.content
          /\ c.title = currentPrompt.title
          /\ c.model = aiModel]_vars

\* Re-analysis in PREVIEW: the optimized text was edited away to nothing
\* and the call in flight carries the Draft's text.
C15_Witness ==
    \E c \in BagToSet(analyses) :
       /\ viewMode = PREVIEW
       /\ aiResult.present
       /\ aiResult.optimizedPrompt = ""
       /\ isAnalyzing
       /\ currentPrompt.content = "x"
       /\ c.content = "x"
       /\ c.title = currentPrompt.title

\* The text the PREVIEW textarea displays (line 566).
Displayed == IF aiResult.present THEN aiResult.optimizedPrompt ELSE currentPrompt.content

\* C16: an edit in PREVIEW changes one target, the text displayed: with an
\* AnalysisResult present only its optimizedPrompt changes, the Draft and
\* the changeLog stay; with none present only the Draft's content changes
\* and the AnalysisResult stays absent.
C16_PreviewEditHasOneTarget ==
    [][EditPreview
          => /\ aiResult'.present = aiResult.present
             /\ aiResult'.changeLog = aiResult.changeLog
             /\ [currentPrompt' EXCEPT !.content = currentPrompt.content] = currentPrompt
             /\ aiResult.present => currentPrompt' = currentPrompt
             /\ ~aiResult.present => aiResult' = aiResult
             /\ Displayed' # Displayed
                  => IF aiResult.present
                     THEN aiResult'.optimizedPrompt # aiResult.optimizedPrompt
                     ELSE currentPrompt'.content # currentPrompt.content]_vars

\* The optimized text of a result was edited away in PREVIEW; the Draft and
\* the changeLog are as the analysis left them.
C16_Witness ==
    /\ viewMode = PREVIEW
    /\ aiResult.present
    /\ aiResult.optimizedPrompt = ""
    /\ aiResult.changeLog = "c"
    /\ currentPrompt.content = "x"
    /\ analyses = EmptyBag

\* C17: after select-new (the LIST button, or the sidebar's EDIT button with
\* no record selected) the view is EDIT, no AnalysisResult is present, no
\* id is selected and the Draft is blank at version v1.0; after
\* select-existing the view is EDIT, no AnalysisResult is present and the
\* Draft is the listed record, id and version included.
C17_SelectionStartsClean ==
    [][/\ (handleCreateNew \/ (NavEdit /\ viewMode # EDIT /\ selectedPromptId = 0))
            => /\ viewMode' = EDIT
               /\ ~aiResult'.present
               /\ selectedPromptId' = 0
               /\ currentPrompt'.version = V(<<"1">>)
               /\ currentPrompt'.title = "" /\ currentPrompt'.summary = ""
               /\ currentPrompt'.content = "" /\ currentPrompt'.excontext = ""
       /\ handleEdit
            => /\ viewMode' = EDIT
               /\ ~aiResult'.present
               /\ currentPrompt' \in prompts
               /\ selectedPromptId' = currentPrompt'.id]_vars

\* Record 1 was saved with an optimized text and selected again from the
\* refreshed listing: EDIT shows it at its new version with no result left.
C17_Witness ==
    /\ viewMode = EDIT
    /\ selectedPromptId = 1
    /\ currentPrompt.id = 1
    /\ currentPrompt.version = V(<<"4">>)
    /\ currentPrompt.content = "z"
    /\ ~aiResult.present
    /\ currentPrompt \in db

\* C18: the step in which a save's storage call succeeds sets the view to
\* LIST and issues one listing call; and the storage call a save issues is
\* made of the Draft and the AnalysisResult of the state Save was
\* triggered in.
C18_SaveSuccessListsAndRefreshes ==
    [][/\ \A c \in BagToSet(saves) :
            SaveResolveWith(c, TRUE)
               => /\ viewMode' = LIST
                  /\ fetches' = fetches + 1
                  /\ isLoadingPrompts'
       /\ \A c \in IssuedSaves :
            /\ c.id = selectedPromptId
            /\ c.rec.title = currentPrompt.title
            /\ c.rec.summary = currentPrompt.summary
            /\ c.rec.excontext = currentPrompt.content
            /\ c.rec.content = Displayed]_vars

\* The update of record 1 succeeded: LIST, the success notice, the listing
\* call in flight and the new version in storage.
C18_Witness ==
    /\ viewMode = LIST
    /\ toast = Toast("saveOk", "success")
    /\ fetches = 1
    /\ isLoadingPrompts
    /\ saves = EmptyBag
    /\ 1 \in saved
    /\ \E r \in db : r.id = 1 /\ r.version = V(<<"4">>)

\* C19: checkConnection raises for no backend, credential and probe
\* outcome; a probe that ends in a transport failure or a non-success
\* status sets the indicator to false; and a check for the Gemini backend
\* sets the indicator to the presence of the credential without leaving a
\* probe in flight.
C19_CheckNeverRaises ==
    [][/\ \A m \in AIModels, k \in BOOLEAN, p \in Probes :
            ~checkConnection(m, k, p).threw
       /\ \A c \in BagToSet(checks), p \in Probes :
            AiProbeResolveWith(c, p) => aiConnected' = (p = "ok")
       /\ \A c \in BagToSet(checks), dbOk \in BOOLEAN :
            (c.model = GEMINI /\ DbTestResolveWith(c, dbOk))
               => /\ aiConnected' = apiKey
                  /\ BagCardinality(checks') < BagCardinality(checks)
       /\ \A c \in BagToSet(checks') : c.stage = "ai" => c.model = QWEN]_vars

\* With the credential set the mount's check has turned the indicator on,
\* and a Qwen probe that failed afterwards has turned it off.
C19_Witness ==
    /\ apiKey
    /\ ~aiConnected
    /\ dbConnected
    /\ checks = EmptyBag
    /\ aiModel = QWEN

\* ver is "v", an integer in decimal digits with an optional sign, ".0".
IsVInteger0(ver) ==
    /\ Len(ver) >= 4
    /\ ver[1] = "v"
    /\ ver[Len(ver) - 1] = "."
    /\ ver[Len(ver)] = "0"
    /\ LET major  == SubSeq(ver, 2, Len(ver) - 2)
           digits == IF Head(major) = "-" THEN Tail(major) ELSE major
       IN  digits # <<>> /\ \A i \in 1..Len(digits) : IsDigit(digits[i])

\* The number of digits ver carries before its first ".".
MajorDigitCount(ver) ==
    Cardinality({i \in 1..Len(ver) :
                    IsDigit(ver[i]) /\ \A j \in 1..i : ver[j] # "."})

Deleted == {id \in 1..(nextId - 1) : id \notin RowIds(db)}

\* C21: deletion is terminal: no step issues a storage update for the id of
\* a record that has been deleted.
C21_NoUpdateOfDeleted ==
    [][\A c \in IssuedSaves : c.kind = "update" => c.id \notin Deleted]_vars

\* C22: every AnalysisResult the controller stores has a string
\* optimizedPrompt and a sequence changeLog, whatever the backend replied.
C22_StoredResultHasItsFields ==
    aiResult.present =>
        aiResult.optimizedPrompt # Undefined /\ aiResult.changeLog # Undefined

\* C23: one notice at a time, with one pending timer, its own: a step that
\* shows a notice leaves only the timer it started, a new one, pending; a
\* notice is cleared only by the one pending timer firing; and every
\* notice's timer eventually fires or is cleared by a newer notice, so that
\* every notice is eventually cleared unless superseded.
C23_NoticeHasItsOwnTimer ==
    /\ [](Cardinality(timers) <= 1 /\ (toast = NoToast <=> timers = {}))
    /\ [][(toast' # NoToast /\ notice' # notice)
             => Cardinality(timers') = 1 /\ timers' \cap timers = {}]_vars
    /\ [][(toast # NoToast /\ toast' = NoToast)
             => timers' = {} /\ Cardinality(timers) = 1]_vars
    /\ \A h \in 0..(MaxTimers - 1) :
          (toast # NoToast /\ timers = {h}) ~> (toast = NoToast \/ timers # {h})

\* A notice that replaced a visible one is showing, with the timer started
\* for it pending: handle 1 is handed out only while handle 0 is pending.
C23_Witness ==
    /\ toast = Toast("analyzeFailed", "error")
    /\ timers = {1}

\* C24: a result is stored only while the Draft is the one its analysis was
\* started for, so that a save never writes the optimized text of one
\* record's analysis into another record.
C24_ResultStoredForItsDraft ==
    [][\A call \in BagToSet(analyses), r \in AiResults :
          AnalyzeResolveWith(call, Reply("json", r))
             => call.title = currentPrompt.title]_vars

\* C25: one new Draft leads to at most one stored record: no create call
\* is issued for a Draft for which a create call has succeeded already.
C25_OneCreatePerDraft ==
    [][\A c \in IssuedSaves : c.kind = "create" => ~created]_vars

\* C26: the analyzing flag is set exactly while an analysis call is in
\* flight.
C26_AnalyzingIffInFlight ==
    isAnalyzing <=> analyses # EmptyBag

\* C27: with no connectivity check in progress, the AI indicator holds the
\* result of a probe of the selected backend; for Gemini that result is
\* whether the credential is set.
C27_IndicatorIsOfSelectedBackend ==
    (checks = EmptyBag /\ aiModel = GEMINI) => aiConnected = apiKey

=============================================================================
